---- MODULE Spec2Model ----
(***************************************************************************)
(* A model of futbin.py: the three top-level operations (get_clubs,        *)
(* get_players_for_clubs, get_player_prices), the FutBinFuture wrappers    *)
(* and their result() methods, the worker pool behind FutBinSession and    *)
(* the completion-order iteration of _as_completed.                        *)
(*                                                                         *)
(* Objects are modelled by their position in the sequences `wrappers`      *)
(* (FutBinFuture instances) and `futures` (concurrent.futures.Future       *)
(* instances): a position is the object's identity.  A URL is the sequence *)
(* of its '/'-separated segments, a parsed page is the sequence of its     *)
(* elements in document order.                                             *)
(***************************************************************************)
EXTENDS Integers, Sequences, FiniteSets, TLC

\* ------------------------------------------------------------------ bounds
MaxRequests == 4
MaxClubs == 2
MaxPlayers == 2
MaxPage == 5

\* ------------------------------------------------------- program constants
DEFAULT_WORKERS == 4
HTTP_OK == 200
HTTP_NOT_FOUND == 404

FUTBIN_URL == <<"https:", "", "www.futbin.com">>
FIFA18_URL == FUTBIN_URL \o <<"18">>

VARIABLES
    op,        \* the top-level operation being executed
    args,      \* its arguments
    site,      \* the remote site: club -> hrefs of the anchors of its roster page
    pc,        \* position of the coordinator in the operation's code
    session,   \* "none" | "open" | "closed": the FutBinSession of the `with` block
    wrappers,  \* FutBinFuture objects in creation order
    futures,   \* the Future objects returned by session.get, in creation order
    i,         \* index of the submission loop
    ac,        \* state of the running concurrent.futures.as_completed iterator
    result,    \* the operation's accumulator / what it has yielded so far
    outcome,   \* how the body of the `with` block was left
    exc,       \* the exception that left it, if any
    completion,\* history: the player-detail futures in their order of completion
    yielded,   \* history: per wave, the wrappers _as_completed has yielded
    consumed,  \* history: wrappers whose result() has been called, in call order
    log        \* history: the wrappers whose value was added to result, in order

vars == <<op, args, site, pc, session, wrappers, futures, i, ac, result,
          outcome, exc, completion, yielded, consumed, log>>

\* ------------------------------------------------------------ small helpers
Range(s) == {s[k] : k \in DOMAIN s}

SeqsUpTo(S, n) == UNION {[1..k -> S] : k \in 0..n}

NoException == [type |-> "none", arg |-> <<>>]
Raised(t, a) == [ok |-> FALSE, value |-> <<>>, exc |-> [type |-> t, arg |-> a]]
Returned(v) == [ok |-> TRUE, value |-> v, exc |-> NoException]

\* ------------------------------------------------------- pages and payloads
\* An element of a parsed page.  `text` is the text of the element's first
\* cell with the white space around it kept apart.
Node(n, c, d, h, t, a) ==
    [name |-> n, class |-> c, id |-> d, href |-> h, text |-> t, attrs |-> a]
NoClass == [stem |-> "", digits |-> ""]
Text(pre, body, post) == [pre |-> pre, body |-> body, post |-> post]
NoText == Text("", "", "")
Row(digits, t) ==
    Node("tr", [stem |-> "player_tr_", digits |-> digits], "", <<>>, t, {})
Anchor(h) == Node("a", NoClass, "", h, NoText, {})
Div(d, a) == Node("div", NoClass, d, <<>>, NoText, a)

Clubs == {"Arsenal", "Chelsea"}

Href1 == <<"18", "player", "158023", "l-messi">>
Href2 == <<"18", "player", "20801", "c-ronaldo">>
Href3 == <<"18", "player", "9014", "a-robben">>
NewsHref == <<"18", "news">>

\* The roster pages the site may serve for a club.
Rosters(c) ==
    IF c = "Arsenal" THEN { <<>>, <<Href1>>, <<Href3, Href1>> }
    ELSE { <<>>, <<NewsHref, Href2>>, <<Href1>> }

RosterPage(hrefs) == [k \in 1..Len(hrefs) |-> Anchor(hrefs[k])]

\* The clubs listing page the site serves for a page number: clubs only on
\* page 1, clubs around the "No Results" row on page 2, that row after a name
\* that begins like it on page 3, no row of the listing on page 4, nothing at
\* all further on.
ClubsPage(page) ==
    CASE page = 1 ->
           << Row("1", Text(" ", "Arsenal", " ")),
              Div("banner", {}),
              Row("2", Text("", "Chelsea", "")) >>
      [] page = 2 ->
           << Row("1", Text("", "Everton", " ")),
              Row("2", Text(" ", "No Results", "")),
              Row("3", Text("", "Fulham", "")),
              Row("4", Text("", "No Results", "")) >>
      [] page = 3 ->
           << Row("1", Text("", "No Results Yet", "")),
              Row("2", Text("", "No Results", "")) >>
      [] page = 4 -> << Div("banner", {}), Anchor(NewsHref) >>
      [] OTHER -> <<>>

\* The detail page the site serves for a player URL: a page-info element
\* carrying the player's resource id, except for the page of Href3, which has
\* no such element.
PlayerPage(url) ==
    IF url = FUTBIN_URL \o Href3
    THEN <<Div("header", {})>>
    ELSE <<Div("header", {}),
           Div("page-info", {<<"data-player-resource", url[Len(url) - 1]>>})>>

\* The page the site serves with a status other than 200.
ErrorPage ==
    << Row("9", Text("", "Not Found", "")),
       Anchor(Href3),
       Div("page-info", {}) >>

\* The body of a price graph: the series of the player asked for, or a body
\* that is no JSON.
NoJson == [valid |-> FALSE, value |-> <<>>]
PricePayloads(price_id) ==
    { [valid |-> TRUE, value |-> <<"prices", price_id>>], NoJson }

Param(w, key) == (CHOOSE kv \in w.params : kv[1] = key)[2]

NoResponse ==
    [exception |-> FALSE, status_code |-> 0, content |-> <<>>, json |-> NoJson]
TransportError ==
    [exception |-> TRUE, status_code |-> 0, content |-> <<>>, json |-> NoJson]
Response(code, doc, js) ==
    [exception |-> FALSE, status_code |-> code, content |-> doc, json |-> js]

\* The ways a request may fail: the connection fails or the site answers with
\* an error page.  A page of the clubs listing fails in one way only, odd pages
\* by an error page and even pages by the connection.
Failures(w) ==
    IF w.cls = "ClubsPageFuture"
    THEN IF w.page % 2 = 1 THEN {Response(HTTP_NOT_FOUND, ErrorPage, NoJson)}
         ELSE {TransportError}
    ELSE {TransportError, Response(HTTP_NOT_FOUND, ErrorPage, NoJson)}

\* What the transport may complete a request with.
Responses(w) ==
    Failures(w) \cup
    CASE w.cls = "ClubsPageFuture" ->
           {Response(HTTP_OK, ClubsPage(w.page), NoJson)}
      [] w.cls = "ClubPlayersFuture" ->
           {Response(HTTP_OK, RosterPage(site[w.club]), NoJson)}
      [] w.cls = "PlayerDataFuture" ->
           {Response(HTTP_OK, PlayerPage(w.url), NoJson)}
      [] w.cls = "PlayerPriceFuture" ->
           {Response(HTTP_OK, <<>>, j) : j \in PricePayloads(Param(w, "player"))}

\* ------------------------------------------------------------------ Player
Player(id, name, url, data) ==
    [id |-> id, name |-> name, url |-> url, data |-> data]

NoData == [none |-> TRUE, attrs |-> {}]
Data(attrs) == [none |-> FALSE, attrs |-> attrs]

Player_from_url(url, data) ==
    Player(url[Len(url) - 1], url[Len(url)], url, data)

Player_price_id(player) ==
    IF player.data.none THEN Raised("TypeError", <<>>)
    ELSE IF \E kv \in player.data.attrs : kv[1] = "data-player-resource"
         THEN Returned((CHOOSE kv \in player.data.attrs :
                            kv[1] = "data-player-resource")[2])
         ELSE Raised("KeyError", <<"data-player-resource">>)

PlayerPool ==
    { Player_from_url(FUTBIN_URL \o Href1,
                      Data({<<"data-player-resource", "158023">>})),
      Player_from_url(FUTBIN_URL \o Href2,
                      Data({<<"data-player-resource", "20801">>})),
      Player_from_url(FUTBIN_URL \o Href3, NoData) }

\* ------------------------------------------------- wrappers and result()
\* FutBinSession.__init__: max_workers or DEFAULT_WORKERS, with no argument.
MaxWorkers == DEFAULT_WORKERS

\* session.get on a pool without a limit of workers.
SessionGet_unbounded(futs) == "running"

\* session.get: the request goes to the pool, where a free worker takes it at
\* once; with every worker busy it waits in the pool's queue.
SessionGet(futs) ==
    IF Cardinality({f \in DOMAIN futs : futs[f].state = "running"}) < MaxWorkers
    THEN "running" ELSE "queued"

\* FutBinFuture.__init__: the wrapper w is created, its request is handed to
\* the session's pool (session.get) and the returned future gets a
\* back-reference to the wrapper.  st = [wrappers, futures].
FutBinFuture_init(st, w) ==
    LET fut == Len(st.futures) + 1
        self == Len(st.wrappers) + 1
    IN [wrappers |-> Append(st.wrappers, [w EXCEPT !.future = fut]),
        futures  |-> Append(st.futures,
                            [state |-> SessionGet(st.futures),
                             response |-> NoResponse, wrapper |-> self])]

ClubsPageFuture(page) ==
    [cls |-> "ClubsPageFuture", url |-> FIFA18_URL \o <<"clubs">>,
     params |-> {<<"page", page>>}, future |-> 0, page |-> page]

ClubPlayersFuture(club) ==
    [cls |-> "ClubPlayersFuture", url |-> FIFA18_URL \o <<"clubs", club>>,
     params |-> {}, future |-> 0, club |-> club]

\* `r.club = club`: the variable left over from the submission loop.
PlayerDataFuture_loop_club(url, club) ==
    [cls |-> "PlayerDataFuture", url |-> url, params |-> {}, future |-> 0,
     club |-> args.clubs[Len(args.clubs)]]

\* PlayerDataFuture(session, url) followed by `r.club = f.club`.
PlayerDataFuture(url, club) ==
    [cls |-> "PlayerDataFuture", url |-> url, params |-> {}, future |-> 0,
     club |-> club]

\* PlayerPriceFuture(session, player) with the default type and year; the
\* cache-busting time stamp is left out.
PlayerPriceFuture(player, price_id) ==
    [cls |-> "PlayerPriceFuture", url |-> FUTBIN_URL \o <<"18", "playerGraph">>,
     params |-> {<<"type", "today">>, <<"year", "18">>, <<"player", price_id>>},
     future |-> 0, player |-> player]

\* FutBinFuture.result() without its check of the status code.
FutBinFuture_result_unchecked(w, futs) ==
    LET response == futs[w.future].response
    IN IF response.exception THEN Raised("ConnectionError", <<>>)
       ELSE Returned(response)

\* FutBinFuture.result() raising FailedRequestException(FUTBIN_URL).
FutBinFuture_result_base_url(w, futs) ==
    LET response == futs[w.future].response
    IN IF response.exception THEN Raised("ConnectionError", <<>>)
       ELSE IF response.status_code # HTTP_OK
            THEN Raised("FailedRequestException", FUTBIN_URL)
            ELSE Returned(response)

FutBinFuture_result(w, futs) ==
    LET response == futs[w.future].response
    IN IF response.exception THEN Raised("ConnectionError", <<>>)
       ELSE IF response.status_code # HTTP_OK
            THEN Raised("FailedRequestException", w.url)
            ELSE Returned(response)

ParsedFuture_result(w, futs) ==
    LET r == FutBinFuture_result(w, futs)
    IN IF r.ok THEN Returned(r.value.content) ELSE r

\* re.compile(r'player_tr_\d+') searched in the element's class.
ClubsPageFuture_filter(node) ==
    node.class.stem = "player_tr_" /\ node.class.digits # ""

\* str.strip() of the cell's text.
Strip(text) == text.body

RECURSIVE ClubsOfRows(_)
ClubsOfRows(rows) ==
    IF rows = <<>> THEN <<>>
    ELSE LET club == Strip(Head(rows).text)
         IN IF club = "No Results" THEN <<>>
            ELSE <<club>> \o ClubsOfRows(Tail(rows))

\* ClubsPageFuture.result() with `continue` in the place of `break`.
ClubsPageFuture_result_continue(w, futs) ==
    LET soup == ParsedFuture_result(w, futs)
        NotSentinel(row) == Strip(row.text) # "No Results"
    IN IF soup.ok
       THEN LET rows == SelectSeq(SelectSeq(soup.value, ClubsPageFuture_filter),
                                  NotSentinel)
            IN Returned([k \in 1..Len(rows) |-> Strip(rows[k].text)])
       ELSE soup

ClubsPageFuture_result(w, futs) ==
    LET soup == ParsedFuture_result(w, futs)
    IN IF soup.ok
       THEN Returned(ClubsOfRows(SelectSeq(soup.value, ClubsPageFuture_filter)))
       ELSE soup

\* re.compile('player/') searched in the anchor's href.
ClubPlayersFuture_href_filter(node) ==
    node.name = "a" /\ \E k \in 1..(Len(node.href) - 1) : node.href[k] = "player"

\* The generator of ClubPlayersFuture.result(), run to its end: the URLs it
\* yields, or the exception its first step raises.
ClubPlayersFuture_result(w, futs) ==
    LET soup == ParsedFuture_result(w, futs)
    IN IF soup.ok
       THEN LET links == SelectSeq(soup.value, ClubPlayersFuture_href_filter)
            IN Returned([k \in 1..Len(links) |-> FUTBIN_URL \o links[k].href])
       ELSE soup

PageInfo(node) == node.name = "div" /\ node.id = "page-info"

\* PlayerDataFuture.result() that fails when the page has no page-info.
PlayerDataFuture_result_strict(w, futs) ==
    LET soup == ParsedFuture_result(w, futs)
    IN IF soup.ok
       THEN LET found == SelectSeq(soup.value, PageInfo)
            IN IF found = <<>> THEN Raised("AttributeError", <<>>)
               ELSE Returned(Player_from_url(w.url, Data(Head(found).attrs)))
       ELSE soup

PlayerDataFuture_result(w, futs) ==
    LET soup == ParsedFuture_result(w, futs)
    IN IF soup.ok
       THEN LET found == SelectSeq(soup.value, PageInfo)
                data == IF found = <<>> THEN NoData ELSE Data(Head(found).attrs)
            IN Returned(Player_from_url(w.url, data))
       ELSE soup

\* PlayerPriceFuture.result() returning the response instead of its JSON.
PlayerPriceFuture_result_raw(w, futs) == FutBinFuture_result(w, futs)

PlayerPriceFuture_result(w, futs) ==
    LET r == FutBinFuture_result(w, futs)
    IN IF ~r.ok THEN r
       ELSE IF r.value.json.valid THEN Returned(r.value.json.value)
       ELSE Raised("JSONDecodeError", <<>>)

\* ------------------------------------------------------------- worker pool
\* The lists `futures` and `futures2` of the operations, as wrapper ids.
FirstWave == {w \in DOMAIN wrappers : wrappers[w].cls # "PlayerDataFuture"}
SecondWave == {w \in DOMAIN wrappers : wrappers[w].cls = "PlayerDataFuture"}

Queued == {f \in DOMAIN futures : futures[f].state = "queued"}
Running == {f \in DOMAIN futures : futures[f].state = "running"}
Done == {f \in DOMAIN futures : futures[f].state = "done"}

\* ----------------------------------------------------------- _as_completed
NoIterator ==
    [fs |-> {}, early |-> {}, finished |-> {}, waiter |-> <<>>, left |-> 0]

\* The iterator once its loop is over: only the record of the futures it
\* found done at its call is kept (history, kept for `futures2` only).
Over(it) == [NoIterator EXCEPT !.early = it.early]

\* An iterator that ends after the first future it hands out.
AsCompletedCall_first_only(ws) ==
    LET fs == {wrappers[w].future : w \in ws}
    IN [fs |-> fs,
        early |-> {f \in fs : futures[f].state = "done" /\ ws = SecondWave},
        finished |-> {f \in fs : futures[f].state = "done"},
        waiter |-> <<>>,
        left |-> IF fs = {} THEN 0 ELSE 1]

\* The first step of as_completed([f.future for f in futures]): the futures
\* already done are set apart (as a set), a waiter collects the others as
\* they complete.
AsCompletedCall(ws) ==
    LET fs == {wrappers[w].future : w \in ws}
    IN [fs |-> fs,
        early |-> {f \in fs : futures[f].state = "done" /\ ws = SecondWave},
        finished |-> {f \in fs : futures[f].state = "done"},
        waiter |-> <<>>,
        left |-> Cardinality(fs)]

\* An iterator that, once some future has completed, hands out the pending
\* ones as well.
NextCompleted_pending ==
    IF ac.finished # {} THEN ac.finished
    ELSE IF ac.waiter # <<>>
         THEN {Head(ac.waiter)} \cup {f \in ac.fs : futures[f].state # "done"}
         ELSE {}

\* The futures the iterator may hand out next: any of those found done at the
\* call, then the others in the order they completed.
NextCompleted ==
    IF ac.finished # {} THEN ac.finished
    ELSE IF ac.waiter # <<>> THEN {Head(ac.waiter)} ELSE {}

AfterYield(f) ==
    IF f \in ac.finished
    THEN [ac EXCEPT !.finished = @ \ {f}, !.left = @ - 1]
    ELSE [ac EXCEPT !.waiter = Tail(@), !.left = @ - 1]

\* A `wrapper` that is the wrapper created last, whatever the future.
WrapperOf_last(f) == Len(wrappers)

\* `yield f.wrapper` of _as_completed.
WrapperOf(f) == futures[f].wrapper

\* -------------------------------------------------------------- the inputs
Ops == {"get_clubs", "get_players_for_clubs", "get_player_prices"}

\* range(start_page, end_page + 1)
PageRange(a) ==
    [k \in 1..(a.end_page - a.start_page + 1) |-> a.start_page + k - 1]

\* The sequence the submission loop of the operation runs over.
Inputs ==
    CASE op = "get_clubs" -> PageRange(args)
      [] op = "get_players_for_clubs" -> args.clubs
      [] op = "get_player_prices" -> args.players

LinkCount(hrefs) ==
    Len(SelectSeq(RosterPage(hrefs), ClubPlayersFuture_href_filter))

RECURSIVE RequestCount(_, _)
RequestCount(st, clubs) ==
    IF clubs = <<>> THEN 0
    ELSE 1 + LinkCount(st[Head(clubs)]) + RequestCount(st, Tail(clubs))

\* The longest range of pages a call of get_clubs asks for: one page more than
\* the pool has workers, so that a request has to wait for a worker.
MaxRange == DEFAULT_WORKERS + 1

NoSite == [c \in Clubs |-> <<>>]
NoArgs == [start_page |-> 1, end_page |-> 0, clubs |-> <<>>, players |-> <<>>]

Init ==
    /\ op \in Ops
    /\ \/ /\ op = "get_clubs"
          /\ \E s \in 1..MaxPage : \E e \in (s - 1)..MaxPage :
                /\ e - s + 1 <= MaxRange
                /\ args = [NoArgs EXCEPT !.start_page = s, !.end_page = e]
          /\ site = NoSite
       \/ /\ op = "get_players_for_clubs"
          /\ \E cs \in SeqsUpTo(Clubs, MaxClubs) :
                args = [NoArgs EXCEPT !.clubs = cs]
          /\ site \in [Clubs -> UNION {Rosters(c) : c \in Clubs}]
          /\ \A c \in Clubs : site[c] \in Rosters(c)
          /\ \A c \in Clubs \ Range(args.clubs) : site[c] = <<>>
          /\ RequestCount(site, args.clubs) <= MaxRequests
       \/ /\ op = "get_player_prices"
          /\ \E ps \in SeqsUpTo(PlayerPool, MaxPlayers) :
                args = [NoArgs EXCEPT !.players = ps]
          /\ site = NoSite
    /\ pc = "called"
    /\ session = "none"
    /\ wrappers = <<>>
    /\ futures = <<>>
    /\ i = 1
    /\ ac = NoIterator
    /\ result = <<>>
    /\ outcome = "none"
    /\ exc = NoException
    /\ completion = <<>>
    /\ yielded = << <<>>, <<>> >>
    /\ consumed = <<>>
    /\ log = <<>>

\* A worker that finishes its request without telling the waiter of the
\* running as_completed.
PoolComplete_silent ==
    \E f \in Running : \E r \in Responses(wrappers[futures[f].wrapper]) :
        /\ futures' =
              [g \in DOMAIN futures |->
                  IF g = f THEN [futures[g] EXCEPT !.state = "done", !.response = r]
                  ELSE IF g \in Queued /\ \A q \in Queued : g <= q
                       THEN [futures[g] EXCEPT !.state = "running"]
                       ELSE futures[g]]
        /\ completion' = IF futures[f].wrapper \in SecondWave
                         THEN Append(completion, f) ELSE completion
        /\ UNCHANGED <<op, args, site, pc, session, wrappers, i, result,
                       outcome, exc, yielded, consumed, log, ac>>

\* ------------------------------------------------------------- transport pool
\* A worker finishes its request: the future is done and the waiter of a
\* running as_completed is told; the worker goes on with the oldest request
\* of the queue, if any.
PoolComplete ==
    \E f \in Running : \E r \in Responses(wrappers[futures[f].wrapper]) :
        /\ futures' =
              [g \in DOMAIN futures |->
                  IF g = f THEN [futures[g] EXCEPT !.state = "done", !.response = r]
                  ELSE IF g \in Queued /\ \A q \in Queued : g <= q
                       THEN [futures[g] EXCEPT !.state = "running"]
                       ELSE futures[g]]
        /\ completion' = IF futures[f].wrapper \in SecondWave
                         THEN Append(completion, f) ELSE completion
        /\ ac' = IF f \in ac.fs THEN [ac EXCEPT !.waiter = Append(@, f)] ELSE ac
        /\ UNCHANGED <<op, args, site, pc, session, wrappers, i, result,
                       outcome, exc, yielded, consumed, log>>

\* ------------------------------------------------------- the `with` block
\* FutBinSession() and __enter__.  For get_player_prices this is the first
\* next() of the generator.
Enter ==
    /\ pc = "called"
    /\ session' = "open"
    /\ pc' = IF Inputs = <<>> THEN "as_completed" ELSE "submit"
    /\ UNCHANGED <<op, args, site, wrappers, futures, i, ac, result, outcome,
                   exc, completion, yielded, consumed, log>>

\* A session released only when the block is left without an exception.
SessionExit_leak ==
    /\ pc = "exit"
    /\ Queued \cup Running = {}
    /\ session' = IF outcome = "raise" THEN "open" ELSE "closed"
    /\ pc' = CASE outcome = "return" -> "returned"
               [] outcome = "raise" -> "raised"
               [] outcome = "close" -> "closed"
    /\ UNCHANGED <<op, args, site, wrappers, futures, i, ac, result, outcome,
                   exc, completion, yielded, consumed, log>>

\* __exit__ of the session: the pool is shut down, which waits for the
\* requests still queued or running; then the operation returns or the
\* exception goes on to the caller.
SessionExit ==
    /\ pc = "exit"
    /\ Queued \cup Running = {}
    /\ session' = "closed"
    /\ pc' = CASE outcome = "return" -> "returned"
               [] outcome = "raise" -> "raised"
               [] outcome = "close" -> "closed"
    /\ UNCHANGED <<op, args, site, wrappers, futures, i, ac, result, outcome,
                   exc, completion, yielded, consumed, log>>

\* ------------------------------------------------------ submission loops
\* A submission loop left after its first request.
Submit_first_only ==
    /\ pc = "submit"
    /\ LET x == Inputs[i]
           pid == IF op = "get_player_prices" THEN Player_price_id(x)
                  ELSE Returned(<<>>)
           w == CASE op = "get_clubs" -> ClubsPageFuture(x)
                  [] op = "get_players_for_clubs" -> ClubPlayersFuture(x)
                  [] op = "get_player_prices" -> PlayerPriceFuture(x, pid.value)
           st == FutBinFuture_init([wrappers |-> wrappers, futures |-> futures], w)
       IN IF pid.ok
          THEN /\ wrappers' = st.wrappers
               /\ futures' = st.futures
               /\ i' = i + 1
               /\ pc' = "as_completed"
               /\ UNCHANGED <<outcome, exc>>
          ELSE /\ pc' = "exit"
               /\ outcome' = "raise"
               /\ exc' = pid.exc
               /\ UNCHANGED <<wrappers, futures, i>>
    /\ UNCHANGED <<op, args, site, session, ac, result, completion, yielded,
                   consumed, log>>

\* One turn of the loop that builds `futures`: ClubsPageFuture(session, page=i),
\* ClubPlayersFuture(session, club) or PlayerPriceFuture(session, player); the
\* last one reads player.price_id, which may raise.
Submit ==
    /\ pc = "submit"
    /\ LET x == Inputs[i]
           pid == IF op = "get_player_prices" THEN Player_price_id(x)
                  ELSE Returned(<<>>)
           w == CASE op = "get_clubs" -> ClubsPageFuture(x)
                  [] op = "get_players_for_clubs" -> ClubPlayersFuture(x)
                  [] op = "get_player_prices" -> PlayerPriceFuture(x, pid.value)
           st == FutBinFuture_init([wrappers |-> wrappers, futures |-> futures], w)
       IN IF pid.ok
          THEN /\ wrappers' = st.wrappers
               /\ futures' = st.futures
               /\ i' = i + 1
               /\ pc' = IF i = Len(Inputs) THEN "as_completed" ELSE "submit"
               /\ UNCHANGED <<outcome, exc>>
          ELSE /\ pc' = "exit"
               /\ outcome' = "raise"
               /\ exc' = pid.exc
               /\ UNCHANGED <<wrappers, futures, i>>
    /\ UNCHANGED <<op, args, site, session, ac, result, completion, yielded,
                   consumed, log>>

\* The first next() of `for f in _as_completed(futures)` (or futures2): the
\* call of as_completed.  Over an empty list the loop ends at once.
AsCompleted ==
    /\ pc \in {"as_completed", "as_completed2"}
    /\ LET first == pc = "as_completed"
           it == AsCompletedCall(IF first THEN FirstWave ELSE SecondWave)
       IN IF it.left > 0
          THEN /\ ac' = it
               /\ pc' = IF first THEN "loop" ELSE "loop2"
               /\ UNCHANGED outcome
          ELSE /\ ac' = Over(it)
               /\ IF first /\ op = "get_players_for_clubs"
                  THEN pc' = "as_completed2" /\ UNCHANGED outcome
                  ELSE pc' = "exit" /\ outcome' = "return"
    /\ UNCHANGED <<op, args, site, session, wrappers, futures, i, result, exc,
                   completion, yielded, consumed, log>>

\* ---------------------------------------------------------------- get_clubs
\* result = f.result() in the place of result.extend(f.result()).
Extend_replace(list, items) == items

\* list.extend(items)
Extend(list, items) == list \o items

\* One turn of `for f in _as_completed(futures): result.extend(f.result())`.
GetClubsStep ==
    /\ op = "get_clubs"
    /\ pc = "loop"
    /\ \E f \in NextCompleted :
         LET w == WrapperOf(f)
             r == ClubsPageFuture_result(wrappers[w], futures)
             it == AfterYield(f)
         IN /\ yielded' = [yielded EXCEPT ![1] = Append(@, w)]
            /\ consumed' = Append(consumed, w)
            /\ IF r.ok
               THEN /\ result' = Extend(result, r.value)
                    /\ log' = Append(log, w)
                    /\ UNCHANGED exc
                    /\ IF it.left = 0
                       THEN pc' = "exit" /\ outcome' = "return" /\ ac' = Over(ac)
                       ELSE pc' = "loop" /\ UNCHANGED outcome /\ ac' = it
               ELSE /\ pc' = "exit"
                    /\ outcome' = "raise"
                    /\ exc' = r.exc
                    /\ ac' = Over(ac)
                    /\ UNCHANGED <<result, log>>
    /\ UNCHANGED <<op, args, site, session, wrappers, futures, i, completion>>

\* ---------------------------------------------------- get_players_for_clubs
RECURSIVE SubmitPlayerData(_, _, _)
SubmitPlayerData(st, urls, club) ==
    IF urls = <<>> THEN st
    ELSE SubmitPlayerData(FutBinFuture_init(st, PlayerDataFuture(Head(urls), club)),
                          Tail(urls), club)

\* One turn of the first loop: the roster yielded next is resolved and a
\* PlayerDataFuture tagged with f.club is submitted for each of its URLs.
PlayersStep1 ==
    /\ op = "get_players_for_clubs"
    /\ pc = "loop"
    /\ \E f \in NextCompleted :
         LET w == WrapperOf(f)
             r == ClubPlayersFuture_result(wrappers[w], futures)
             it == AfterYield(f)
             st == SubmitPlayerData([wrappers |-> wrappers, futures |-> futures],
                                    r.value, wrappers[w].club)
         IN /\ yielded' = [yielded EXCEPT ![1] = Append(@, w)]
            /\ consumed' = Append(consumed, w)
            /\ IF r.ok
               THEN /\ wrappers' = st.wrappers
                    /\ futures' = st.futures
                    /\ UNCHANGED <<exc, outcome>>
                    /\ IF it.left = 0
                       THEN pc' = "as_completed2" /\ ac' = Over(ac)
                       ELSE pc' = "loop" /\ ac' = it
               ELSE /\ pc' = "exit"
                    /\ outcome' = "raise"
                    /\ exc' = r.exc
                    /\ ac' = Over(ac)
                    /\ UNCHANGED <<wrappers, futures>>
    /\ UNCHANGED <<op, args, site, session, i, result, completion, log>>

\* result[club].insert(0, p)
DictAppend_front(d, club, p) ==
    [c \in DOMAIN d \cup {club} |->
        IF c = club
        THEN (IF c \in DOMAIN d THEN <<p>> \o d[c] ELSE <<p>>)
        ELSE d[c]]

\* An append that starts from the empty list: what is left of two appends to
\* the same key that are not serialized.
DictAppend_lost(d, club, p) ==
    [c \in DOMAIN d \cup {club} |-> IF c = club THEN <<p>> ELSE d[c]]

\* An accumulator that gets a key for every club asked for.
DictAppend_all_keys(d, club, p) ==
    [c \in DOMAIN d \cup {club} \cup Range(args.clubs) |->
        IF c = club
        THEN (IF c \in DOMAIN d THEN Append(d[c], p) ELSE <<p>>)
        ELSE IF c \in DOMAIN d THEN d[c] ELSE <<>>]

\* result[club].append(p) on a defaultdict(list).
DictAppend(d, club, p) ==
    [c \in DOMAIN d \cup {club} |->
        IF c = club
        THEN (IF c \in DOMAIN d THEN Append(d[c], p) ELSE <<p>>)
        ELSE d[c]]

\* One turn of the second loop: p = f.result(); result[f.club].append(p).
PlayersStep2 ==
    /\ op = "get_players_for_clubs"
    /\ pc = "loop2"
    /\ \E f \in NextCompleted :
         LET w == WrapperOf(f)
             r == PlayerDataFuture_result(wrappers[w], futures)
             it == AfterYield(f)
         IN /\ yielded' = [yielded EXCEPT ![2] = Append(@, w)]
            /\ consumed' = Append(consumed, w)
            /\ IF r.ok
               THEN /\ result' = DictAppend(result, wrappers[w].club, r.value)
                    /\ log' = Append(log, w)
                    /\ UNCHANGED exc
                    /\ IF it.left = 0
                       THEN pc' = "exit" /\ outcome' = "return" /\ ac' = Over(ac)
                       ELSE pc' = "loop2" /\ UNCHANGED outcome /\ ac' = it
               ELSE /\ pc' = "exit"
                    /\ outcome' = "raise"
                    /\ exc' = r.exc
                    /\ ac' = Over(ac)
                    /\ UNCHANGED <<result, log>>
    /\ UNCHANGED <<op, args, site, session, wrappers, futures, i, completion>>

\* --------------------------------------------------------- get_player_prices
\* The generator runs to `yield f.player, f.result()` and is suspended there.
PricesStep ==
    /\ op = "get_player_prices"
    /\ pc = "loop"
    /\ \E f \in NextCompleted :
         LET w == WrapperOf(f)
             r == PlayerPriceFuture_result(wrappers[w], futures)
         IN /\ yielded' = [yielded EXCEPT ![1] = Append(@, w)]
            /\ consumed' = Append(consumed, w)
            /\ ac' = IF r.ok THEN AfterYield(f) ELSE Over(ac)
            /\ IF r.ok
               THEN /\ result' = Append(result, <<wrappers[w].player, r.value>>)
                    /\ log' = Append(log, w)
                    /\ pc' = "suspended"
                    /\ UNCHANGED <<exc, outcome>>
               ELSE /\ pc' = "exit"
                    /\ outcome' = "raise"
                    /\ exc' = r.exc
                    /\ UNCHANGED <<result, log>>
    /\ UNCHANGED <<op, args, site, session, wrappers, futures, i, completion>>

\* The consumer asks for the next pair: the generator goes on after the yield
\* and, with every future handed out, leaves the `with` block.
GenNext ==
    /\ pc = "suspended"
    /\ IF ac.left = 0
       THEN pc' = "exit" /\ outcome' = "return" /\ ac' = Over(ac)
       ELSE pc' = "loop" /\ UNCHANGED <<outcome, ac>>
    /\ UNCHANGED <<op, args, site, session, wrappers, futures, i, result, exc,
                   completion, yielded, consumed, log>>

\* The consumer closes (or drops) the generator: GeneratorExit is raised at
\* the yield and leaves the `with` block; a generator never started just ends.
GenClose ==
    /\ op = "get_player_prices"
    /\ \/ /\ pc = "suspended"
          /\ pc' = "exit" /\ outcome' = "close" /\ ac' = Over(ac)
       \/ /\ pc = "called"
          /\ pc' = "closed" /\ UNCHANGED <<outcome, ac>>
    /\ UNCHANGED <<op, args, site, session, wrappers, futures, i, result, exc,
                   completion, yielded, consumed, log>>

Next ==
    \/ Enter
    \/ Submit
    \/ AsCompleted
    \/ GetClubsStep
    \/ PlayersStep1
    \/ PlayersStep2
    \/ PricesStep
    \/ GenNext
    \/ GenClose
    \/ SessionExit
    \/ PoolComplete

Spec == Init /\ [][Next]_vars

\* The steps of the thread that runs the operation, up to the end of its loops.
Coordinator ==
    \/ Enter
    \/ Submit
    \/ AsCompleted
    \/ GetClubsStep
    \/ PlayersStep1
    \/ PlayersStep2
    \/ PricesStep

\* The program under a scheduler that lets the coordinator run whenever it can,
\* a consumer that keeps asking the generator for its next pair, and a pool
\* whose workers finish every request they were given.
LiveSpec ==
    /\ Spec
    /\ WF_vars(Coordinator)
    /\ WF_vars(SessionExit)
    /\ WF_vars(GenNext)
    /\ WF_vars(PoolComplete)

\* ------------------------------------------------ vocabulary of the claims
FutureOf(w) == futures[wrappers[w].future]

Completed(w) == FutureOf(w).state = "done"

\* What result() of wrapper w gives, by the class of w.
ResultOf(w) ==
    CASE wrappers[w].cls = "ClubsPageFuture" ->
           ClubsPageFuture_result(wrappers[w], futures)
      [] wrappers[w].cls = "ClubPlayersFuture" ->
           ClubPlayersFuture_result(wrappers[w], futures)
      [] wrappers[w].cls = "PlayerDataFuture" ->
           PlayerDataFuture_result(wrappers[w], futures)
      [] wrappers[w].cls = "PlayerPriceFuture" ->
           PlayerPriceFuture_result(wrappers[w], futures)

Succeeded(w) == Completed(w) /\ ResultOf(w).ok
Failed(w) == Completed(w) /\ ~ResultOf(w).ok

Ended == pc \in {"returned", "raised"}

Times(seq, x) == Cardinality({k \in DOMAIN seq : seq[k] = x})

NoDuplicates(seq) == \A k, l \in DOMAIN seq : seq[k] = seq[l] => k = l

Get(d, c) == IF c \in DOMAIN d THEN d[c] ELSE <<>>

\* No exception, or the failure of a request: a status other than 200 or an
\* error of the transport.
RequestFailures == {"none", "FailedRequestException", "ConnectionError"}

\* The wrappers whose value goes to the operation's output.
LastWave == IF op = "get_players_for_clubs" THEN SecondWave ELSE FirstWave

\* ------------------------------------------------------------------- C1
\* C1: once an operation has ended, every request it submitted has been
\* resolved by it, whatever failed beside it, and the value of every request
\* of the last wave that succeeded is part of the output.
C1_FailureDoesNotAbortSiblings ==
    (Ended /\ exc.type \in RequestFailures) =>
        \A w \in DOMAIN wrappers :
            /\ w \in Range(consumed)
            /\ (w \in LastWave /\ Succeeded(w)) => w \in Range(log)

\* ------------------------------------------------------------------- C2
\* The two distinct clubs were asked for, the roster fetch of `bad` failed,
\* that of `good` succeeded with several player URLs, and every player detail
\* fetch succeeded.
C2_Scenario(bad, good) ==
    /\ op = "get_players_for_clubs"
    /\ Len(args.clubs) = 2
    /\ {1, 2} \subseteq DOMAIN wrappers
    /\ wrappers[bad].club # wrappers[good].club
    /\ Failed(bad)
    /\ Succeeded(good)
    /\ LinkCount(site[wrappers[good].club]) > 1
    /\ \A w \in SecondWave : Succeeded(w)

\* C2: with one roster fetch failed and the other succeeded with k player URLs
\* whose detail fetches all succeed, get_players_for_clubs returns a mapping:
\* k Players for the succeeding club, none for the failing one.
C2_FailedClubGivesNoPlayers ==
    \A bad, good \in {1, 2} :
        (Ended /\ C2_Scenario(bad, good)) =>
            /\ pc = "returned"
            /\ Len(Get(result, wrappers[good].club)) = LinkCount(site[wrappers[good].club])
            /\ Get(result, wrappers[bad].club) = <<>>

\* ------------------------------------------------------------------- C3
Wave(n) == IF n = 1 THEN FirstWave ELSE SecondWave

\* The loop over wave n has run to the end of its iterator.
Exhausted(n) ==
    \/ outcome = "return"
    \/ n = 1 /\ pc \in {"as_completed2", "loop2"}
    \/ n = 1 /\ pc \in {"exit", "raised"} /\ yielded[2] # <<>>

Iterating(n) ==
    IF n = 1 THEN pc \in {"loop", "suspended"} ELSE pc = "loop2"

\* C3: _as_completed yields every wrapper handed to it exactly once: never one
\* twice, never one that was not submitted or is not complete, every completed
\* one is due to be yielded, and the iterator ends only after all N.
C3_YieldsEachWrapperOnce ==
    \A n \in {1, 2} :
        /\ NoDuplicates(yielded[n])
        /\ Range(yielded[n]) \subseteq Wave(n)
        /\ \A w \in Range(yielded[n]) : Completed(w)
        /\ Exhausted(n) => Range(yielded[n]) = Wave(n)
        /\ Iterating(n) =>
              /\ ac.left = Cardinality(Wave(n)) - Len(yielded[n])
              /\ ac.finished \cup Range(ac.waiter) =
                    {wrappers[w].future : w \in {v \in Wave(n) \ Range(yielded[n]) : Completed(v)}}

\* All the requests of a wave of two have been yielded, in the reverse of
\* their submission order, one of them failed.
C3_Witness ==
    /\ Cardinality(FirstWave) = 2
    /\ yielded[1] = <<2, 1>>
    /\ Failed(1)
    /\ Succeeded(2)

\* ------------------------------------------------------------------- C4
\* C4: when the operation has ended (with no other exception than the failure
\* of a request), result() of every request it submitted has been called
\* exactly once.
C4_EveryRequestConsumedOnce ==
    (Ended /\ exc.type \in RequestFailures) => \A w \in DOMAIN wrappers : Times(consumed, w) = 1

\* ------------------------------------------------------------------- C5
\* The transport completed the request of w with status 200.
HttpOk(w) ==
    /\ Completed(w)
    /\ ~FutureOf(w).response.exception
    /\ FutureOf(w).response.status_code = HTTP_OK

\* The anchors of the roster page of wrapper v that lead to a player, as
\* absolute URLs tagged with the club of v.
TaggedLinks(v) ==
    LET links == SelectSeq(FutureOf(v).response.content, ClubPlayersFuture_href_filter)
    IN [k \in 1..Len(links) |->
          [url |-> FUTBIN_URL \o links[k].href, club |-> wrappers[v].club]]

\* What the rosters resolved so far call for, in the order of resolution.
RECURSIVE ExpectedSecondWave(_)
ExpectedSecondWave(seq) ==
    IF seq = <<>> THEN <<>>
    ELSE LET v == Head(seq)
         IN (IF v \in FirstWave /\ HttpOk(v) THEN TaggedLinks(v) ELSE <<>>)
            \o ExpectedSecondWave(Tail(seq))

SecondWaveList ==
    LET ws == SelectSeq(wrappers, LAMBDA w : w.cls = "PlayerDataFuture")
    IN [k \in 1..Len(ws) |-> [url |-> ws[k].url, club |-> ws[k].club]]

\* C5: the player-detail requests submitted are exactly those for the player
\* URLs of the rosters that were resolved and had status 200, each tagged with
\* the club of its roster; a roster that failed adds none.
C5_SecondWaveFromSucceededRosters ==
    op = "get_players_for_clubs" =>
        SecondWaveList = ExpectedSecondWave(consumed)

\* A roster succeeded and player-detail requests were submitted for it, then
\* another roster failed.
C5_Witness ==
    /\ op = "get_players_for_clubs"
    /\ SecondWave # {}
    /\ \E v \in FirstWave : v \in Range(consumed) /\ Completed(v) /\ ~HttpOk(v)

\* ------------------------------------------------------------------- C6
LastConsumed == consumed[Len(consumed)]

\* C6: result() raises FailedRequestException with the URL of its own request
\* exactly when the response has a status other than 200, and gives the
\* response when the status is 200, whatever happened to the other wrappers.
C6_FailedRequestCarriesUrl ==
    /\ exc.type = "FailedRequestException" =>
          /\ exc.arg = wrappers[LastConsumed].url
          /\ ~FutureOf(LastConsumed).response.exception
          /\ FutureOf(LastConsumed).response.status_code # HTTP_OK
    /\ \A w \in Range(consumed) :
          (~FutureOf(w).response.exception /\ ~HttpOk(w)) =>
              /\ w = LastConsumed
              /\ outcome = "raise"
              /\ exc = [type |-> "FailedRequestException", arg |-> wrappers[w].url]
    /\ \A w \in Range(log) : HttpOk(w)
    /\ \A w \in DOMAIN wrappers :
          HttpOk(w) =>
              FutBinFuture_result(wrappers[w], futures) = Returned(FutureOf(w).response)

\* A wrapper failed with a 404 while a sibling of its wave, not yet resolved,
\* has a response with status 200.
C6_Witness ==
    /\ exc.type = "FailedRequestException"
    /\ FutureOf(LastConsumed).response.status_code = HTTP_NOT_FOUND
    /\ \E w \in DOMAIN wrappers :
          /\ w # LastConsumed
          /\ wrappers[w].cls = wrappers[LastConsumed].cls
          /\ w \notin Range(consumed)
          /\ HttpOk(w)

\* ------------------------------------------------------------------- C7
C7_Held ==
    /\ pc \in {"returned", "raised"} => session = "closed"
    /\ pc = "closed" => session # "open"
    /\ session = "none" => wrappers = <<>> /\ consumed = <<>>
    /\ session = "closed" => pc \in {"returned", "raised", "closed"}

\* C7: an operation holds one session from its start to its end: it is
\* released when the operation has returned or raised, requests are submitted
\* and resolved only while it is held, and it is not taken again.
C7_SessionReleasedOnEveryExit ==
    /\ []C7_Held
    /\ [][(wrappers' # wrappers \/ consumed' # consumed) =>
             (session = "open" /\ session' = "open")]_vars
    /\ [][session # "none" => session' # "none"]_vars
    /\ [][session = "closed" => session' = "closed"]_vars

\* The operation was left by an exception of a resolution and the session is
\* released.
C7_Witness ==
    /\ pc = "raised"
    /\ consumed # <<>>
    /\ session = "closed"

\* ------------------------------------------------------------------- C8
\* The player URLs of the roster page the site serves for club c.
RosterURLs(c) ==
    LET links == SelectSeq(RosterPage(site[c]), ClubPlayersFuture_href_filter)
    IN {FUTBIN_URL \o links[k].href : k \in DOMAIN links}

\* The wrappers tagged with club c among those of seq, in the order of seq.
OfClub(seq, c) == SelectSeq(seq, LAMBDA w : wrappers[w].club = c)

\* C8: the wrapper yielded for a future is the one that submitted it, and every
\* Player of result[c] is the value of a request tagged c whose URL was
\* extracted from the roster page of club c.
C8_PlayersBelongToTheirClub ==
    op = "get_players_for_clubs" =>
        /\ \A f \in DOMAIN futures : wrappers[WrapperOf(f)].future = f
        /\ \A c \in DOMAIN result :
              /\ Len(result[c]) = Len(OfClub(log, c))
              /\ \A k \in DOMAIN result[c] :
                    LET w == OfClub(log, c)[k]
                    IN /\ result[c][k] = Player_from_url(wrappers[w].url, result[c][k].data)
                       /\ wrappers[w].url \in RosterURLs(c)
                       /\ result[c][k].url \in RosterURLs(c)

\* Players of two clubs with different rosters were resolved, the second
\* wave being yielded in the reverse of its submission order.
C8_Witness ==
    /\ op = "get_players_for_clubs"
    /\ pc = "returned"
    /\ Cardinality(DOMAIN result) = 2
    /\ Len(yielded[2]) = 2
    /\ yielded[2][1] > yielded[2][2]
    /\ RosterURLs("Arsenal") \cap RosterURLs("Chelsea") = {}

\* ------------------------------------------------------------------- C9
\* C9: the pairs yielded by get_player_prices are, one for one, the input
\* player a request was submitted for and the decoded body of the response to
\* that request; no input player is paired twice, and when the generator has
\* returned every input player has been paired.
C9_PricesPairedWithTheirPlayer ==
    op = "get_player_prices" =>
        /\ Len(result) = Len(log)
        /\ NoDuplicates(log)
        /\ \A k \in DOMAIN result :
              LET w == log[k]
              IN /\ w \in 1..Len(args.players)
                 /\ result[k][1] = args.players[w]
                 /\ Param(wrappers[w], "player") = Player_price_id(args.players[w]).value
                 /\ FutureOf(w).response.json.valid
                 /\ result[k][2] = FutureOf(w).response.json.value
        /\ pc = "returned" => Range(log) = 1..Len(args.players)

\* Two different players were priced, the second one first.
C9_Witness ==
    /\ op = "get_player_prices"
    /\ pc = "returned"
    /\ log = <<2, 1>>
    /\ args.players[1] # args.players[2]

\* ------------------------------------------------------------------ C10
\* The position of future f in the order of completion.
CompletionIndex(f) == CHOOSE k \in DOMAIN completion : completion[k] = f

Values(seq) == [k \in DOMAIN seq |-> ResultOf(seq[k]).value]

HttpOkPage(w) ==
    /\ wrappers[w].cls = "ClubsPageFuture"
    /\ Completed(w)
    /\ ~FutureOf(w).response.exception
    /\ FutureOf(w).response.status_code = HTTP_OK

\* The trimmed first-cell texts of the matching rows of a page that precede
\* the first one whose trimmed text is "No Results".
ClubsBeforeSentinel(doc) ==
    LET rows == SelectSeq(doc, ClubsPageFuture_filter)
        stops == {k \in DOMAIN rows : rows[k].text.body = "No Results"}
        n == IF stops = {} THEN Len(rows)
             ELSE (CHOOSE k \in stops : \A j \in stops : k <= j) - 1
    IN [k \in 1..n |-> rows[k].text.body]

\* C11: result() of a clubs page fetched with status 200 returns, in document
\* order, the trimmed first-cell texts of the matching rows before the first
\* "No Results" row, and the empty sequence for a page without matching rows.
C11_ClubsUpToSentinel ==
    \A w \in DOMAIN wrappers :
        HttpOkPage(w) =>
            LET doc == FutureOf(w).response.content
                r == ClubsPageFuture_result(wrappers[w], futures)
            IN /\ r = Returned(ClubsBeforeSentinel(doc))
               /\ SelectSeq(doc, ClubsPageFuture_filter) = <<>> => r = Returned(<<>>)

\* get_clubs has resolved page 2, which has a club after its first "No
\* Results" row, and page 4, which has no matching row, and has returned.
C11_Witness ==
    /\ op = "get_clubs"
    /\ pc = "returned"
    /\ \E w, v \in Range(log) :
          /\ wrappers[w].page = 2
          /\ wrappers[v].page = 4
          /\ HttpOkPage(w)
          /\ HttpOkPage(v)
          /\ ClubsPageFuture_result(wrappers[w], futures) = Returned(<<"Everton">>)
          /\ ClubsPageFuture_result(wrappers[v], futures) = Returned(<<>>)
    /\ "Fulham" \notin Range(result)

\* ------------------------------------------------------------------- C12
\* C12: at most DEFAULT_WORKERS requests are being executed at any time, and a
\* request waits in the queue only while every worker is busy.
C12_PoolWidth ==
    /\ Cardinality(Running) <= DEFAULT_WORKERS
    /\ Queued # {} => Cardinality(Running) = DEFAULT_WORKERS
    /\ \A q \in Queued : \A f \in Running : f < q

\* A fifth request waits while the first four are being executed.
C12_Witness ==
    /\ Running = 1..DEFAULT_WORKERS
    /\ DEFAULT_WORKERS + 1 \in Queued

\* ------------------------------------------------------------------- C13
InBody == pc \in {"called", "submit", "as_completed", "as_completed2", "loop", "loop2"}

OneAppend(before, after) ==
    \E c \in DOMAIN after :
        /\ DOMAIN after = DOMAIN before \cup {c}
        /\ Len(after[c]) = Len(Get(before, c)) + 1
        /\ \A k \in 1..Len(Get(before, c)) : after[c][k] = before[c][k]
        /\ \A b \in DOMAIN after \ {c} : after[b] = before[b]

\* The Player the page fetched for player-detail request w describes.
ResolvedPlayer(w) ==
    LET found == SelectSeq(FutureOf(w).response.content, PageInfo)
    IN Player_from_url(wrappers[w].url,
                       IF found = <<>> THEN NoData ELSE Data(Head(found).attrs))

\* The accumulator holds the Player of each player-detail request once per
\* request, under the request's club, and nothing else.
EachPlayerOnce ==
    /\ \A w \in SecondWave :
          /\ wrappers[w].club \in DOMAIN result
          /\ Times(result[wrappers[w].club], ResolvedPlayer(w)) =
                Cardinality({v \in SecondWave :
                                /\ wrappers[v].club = wrappers[w].club
                                /\ ResolvedPlayer(v) = ResolvedPlayer(w)})
    /\ \A c \in DOMAIN result :
          Len(result[c]) = Cardinality({w \in SecondWave : wrappers[w].club = c})

\* C14: in get_players_for_clubs the accumulator changes only by one append at
\* a time, made by the coordinator in its second loop and never in the step of
\* a pool worker, and at a normal return it holds each resolved Player exactly
\* once for each request that resolved it.
C14_AppendsSerialized ==
    /\ [][(op = "get_players_for_clubs" /\ result' # result) =>
             /\ pc = "loop2"
             /\ futures' = futures
             /\ OneAppend(result, result')]_vars
    /\ []((op = "get_players_for_clubs" /\ pc = "returned") => EachPlayerOnce)

\* The operation has returned two Players of one club whose requests were
\* both complete before the first of them was appended.
C14_Witness ==
    /\ op = "get_players_for_clubs"
    /\ pc = "returned"
    /\ \E c \in DOMAIN result :
          /\ Len(result[c]) = 2
          /\ \A w \in SecondWave : wrappers[w].future \in ac.early

\* ------------------------------------------------------------------- C15
\* The operation has returned or raised, or its generator has been closed.
Terminated == pc \in {"returned", "raised", "closed"}

\* C15: with a pool that completes every request it was given, every operation
\* terminates; and no operation has returned or raised while a request it
\* submitted is not complete.
C15_TerminatesIffPoolCompletes ==
    /\ <>Terminated
    /\ [](Terminated => Queued \cup Running = {})

\* An operation has returned after more requests than the pool has workers.
C15_Witness ==
    /\ pc = "returned"
    /\ Len(wrappers) > DEFAULT_WORKERS
    /\ \A w \in DOMAIN wrappers : Completed(w)

\* ------------------------------------------------------------------- C16
RECURSIVE Concatenation(_)
Concatenation(lists) ==
    IF lists = <<>> THEN <<>>
    ELSE Head(lists) \o Concatenation(Tail(lists))

\* The club lists of the pages fetched by the wrappers ws, in the order of ws.
PageLists(ws) ==
    [k \in DOMAIN ws |-> ClubsBeforeSentinel(FutureOf(ws[k]).response.content)]

\* C16: when every page fetch of get_clubs has completed with status 200 the
\* call returns, every page of the range has been yielded once, and the result
\* is the concatenation of the pages' club lists in the order the pages were
\* yielded.
C16_ConcatenationInYieldOrder ==
    (/\ op = "get_clubs"
     /\ Ended
     /\ \A w \in DOMAIN wrappers : HttpOkPage(w)) =>
        /\ pc = "returned"
        /\ NoDuplicates(yielded[1])
        /\ {wrappers[w].page : w \in Range(yielded[1])} =
              args.start_page..args.end_page
        /\ result = Concatenation(PageLists(yielded[1]))

\* get_clubs(1, 3) has returned with page 2, which has the sentinel, yielded
\* before pages 3 and 1.
C16_Witness ==
    /\ op = "get_clubs"
    /\ pc = "returned"
    /\ args.start_page = 1
    /\ args.end_page = 3
    /\ [k \in 1..3 |-> wrappers[yielded[1][k]].page] = <<2, 3, 1>>
    /\ result = <<"Everton", "No Results Yet", "Arsenal", "Chelsea">>

\* ------------------------------------------------------------------- C17
\* Player-detail request w was answered with status 200 by a page that has no
\* page-info element.
NoPageInfo(w) ==
    /\ wrappers[w].cls = "PlayerDataFuture"
    /\ Completed(w)
    /\ ~FutureOf(w).response.exception
    /\ FutureOf(w).response.status_code = HTTP_OK
    /\ \A k \in DOMAIN FutureOf(w).response.content :
          FutureOf(w).response.content[k].id # "page-info"

\* C17: result() of a player-detail request answered with status 200 by a page
\* without page-info returns a Player without data, which is appended like any
\* other; reading price_id of such a Player raises, and get_player_prices
\* raises that error while it builds the request for the player, with the
\* requests of the players before it submitted and no result consumed.
C17_MissingPageInfoSurfacesAtPriceId ==
    /\ \A w \in DOMAIN wrappers :
          NoPageInfo(w) =>
             LET r == PlayerDataFuture_result(wrappers[w], futures)
             IN /\ r.ok
                /\ r.value.data = NoData
                /\ r.value.url = wrappers[w].url
                /\ w \in Range(consumed) => w \in Range(log)
                /\ Player_price_id(r.value) = Raised("TypeError", <<>>)
    /\ op = "get_player_prices" =>
          /\ \A k \in 1..Len(wrappers) : ~args.players[k].data.none
          /\ (pc \in {"as_completed", "loop", "suspended"} \/ consumed # <<>>) =>
                \A k \in DOMAIN args.players : ~args.players[k].data.none
          /\ (pc \in {"exit", "raised"} /\ Len(wrappers) < Len(args.players)) =>
                /\ args.players[Len(wrappers) + 1].data.none
                /\ exc.type = "TypeError"
                /\ consumed = <<>>

\* get_players_for_clubs has returned a Player without data among the Players
\* of a club.
C17_Witness ==
    /\ op = "get_players_for_clubs"
    /\ pc = "returned"
    /\ \E w \in Range(log) :
          /\ NoPageInfo(w)
          /\ \E k \in DOMAIN result[wrappers[w].club] :
                result[wrappers[w].club][k].data = NoData

\* ------------------------------------------------------------------- C18
\* C18: in get_players_for_clubs, once result() of a player-detail request has
\* been called or a Player has been appended, one roster request per club asked
\* for has been submitted and result() of each has been called, before that of
\* any player-detail request.
C18_SecondWaveConsumedAfterFirst ==
    (/\ op = "get_players_for_clubs"
     /\ \/ yielded[2] # <<>>
        \/ result # <<>>
        \/ Range(consumed) \cap SecondWave # {}) =>
        /\ Cardinality(FirstWave) = Len(args.clubs)
        /\ FirstWave \subseteq Range(consumed)
        /\ \A k, l \in DOMAIN consumed :
              (consumed[k] \in FirstWave /\ consumed[l] \in SecondWave) => k < l

\* A player-detail request has been submitted and has completed while the
\* result of a roster request is still to be consumed; nothing of the second
\* wave has been consumed.
C18_Witness ==
    /\ op = "get_players_for_clubs"
    /\ pc = "loop"
    /\ FirstWave \ Range(consumed) # {}
    /\ \E w \in SecondWave : Completed(w)
    /\ Range(consumed) \cap SecondWave = {}
    /\ result = <<>>

\* ------------------------------------------------------------------- C19
\* The clubs of the player-detail requests whose result() was called and whose
\* fetch had status 200.
ResolvedClubs ==
    {wrappers[w].club : w \in {v \in Range(consumed) \cap SecondWave :
                                 /\ ~FutureOf(v).response.exception
                                 /\ FutureOf(v).response.status_code = HTTP_OK}}

\* C19: in every state of get_players_for_clubs no key of the accumulator maps
\* to an empty sequence, its keys are the clubs with a player-detail request
\* resolved, and at the return a club whose roster page has no player URL is
\* not a key.
C19_NoEmptyEntry ==
    op = "get_players_for_clubs" =>
        /\ \A c \in DOMAIN result : result[c] # <<>>
        /\ DOMAIN result = ResolvedClubs
        /\ pc = "returned" =>
              \A c \in Range(args.clubs) :
                  LinkCount(site[c]) = 0 => c \notin DOMAIN result

\* The operation has returned for two clubs, one with a Player and one whose
\* roster page has no player URL.
C19_Witness ==
    /\ op = "get_players_for_clubs"
    /\ pc = "returned"
    /\ Len(args.clubs) = 2
    /\ Cardinality(DOMAIN result) = 1
    /\ \E c \in Range(args.clubs) : LinkCount(site[c]) = 0 /\ c \notin DOMAIN result

\* ------------------------------------------------------------------- C20
\* C20: the generator of get_player_prices holds no session and has submitted
\* nothing before its first next(); when it has yielded a pair, a request for
\* every input player has been submitted; suspended at a yield it holds its
\* session, which is released only once the generator is exhausted, closed or
\* left by an exception, and the generator then runs no further.
C20_LazyOneShot ==
    op = "get_player_prices" =>
        /\ pc = "called" => (session = "none" /\ wrappers = <<>> /\ futures = <<>>)
        /\ result # <<>> =>
              /\ Len(wrappers) = Len(args.players)
              /\ \A k \in DOMAIN wrappers : wrappers[k].player = args.players[k]
        /\ pc \in {"submit", "as_completed", "loop", "suspended", "exit"} =>
              session = "open"
        /\ session = "closed" =>
              /\ pc \in {"returned", "raised", "closed"}
              /\ outcome \in {"return", "raise", "close"}
              /\ outcome = "return" => Len(result) = Len(args.players)
        /\ pc \in {"returned", "raised", "closed"} =>
              ~ENABLED (Coordinator \/ GenNext \/ GenClose \/ SessionExit)

\* The generator is suspended at its first yield, with both requests
\* submitted, one of them still running, and the session open.
C20_Witness ==
    /\ op = "get_player_prices"
    /\ pc = "suspended"
    /\ Len(result) = 1
    /\ Len(wrappers) = 2
    /\ Running # {}
    /\ session = "open"

====
